---------------------------- MODULE Spec2Model ----------------------------
(***************************************************************************)
(* Incremental chat export of tg_db: TelegramManager.export_chat_history_md *)
(* (src/tg_logic/telegram_logic.py).  One chat, one export directory.       *)
(*                                                                         *)
(* The state is what the export leaves behind between runs (the files of   *)
(* the chat directory and export_index.json), the remote chat history, and *)
(* the locals of the run that is in progress.  An export file is opened in *)
(* append mode with Python's default buffering, so what the run has        *)
(* written sits in the buffer `buf` until the buffer fills up or the file  *)
(* is closed.  Nothing reads the files while a run is in progress, so how  *)
(* much of the buffer had been written out is decided where it shows: when *)
(* the process dies (Kill), and what was still buffered then is lost.      *)
(*                                                                         *)
(* Spec is the export of one chat, message by message.  LoadSpec is the    *)
(* same export started in a directory whose checkpoint is damaged.         *)
(* AppSpec is the application around it (src/ui/ui_main.py): the worker    *)
(* threads for exports and stats refreshes of two chats, which share one   *)
(* TelegramManager and its event loop, and the message_stats table; there  *)
(* an export is taken as a whole.                                          *)
(***************************************************************************)
EXTENDS Integers, Sequences, FiniteSets, TLC

\* ------------------------------------------------------------------ bounds
MaxMsgs == 3            \* messages the remote chat can hold
MaxRuns == 2            \* export invocations in one behaviour
MaxWordsPerFile == 2    \* words_per_file is drawn from 1..MaxWordsPerFile
FlushEvery == 2         \* checkpoint cadence; the code's 50, scaled down
MaxStatMsgs == 2        \* message ids a chat of the application can hold
MaxRequests == 2        \* exports, refreshes and charts asked for in one behaviour
MaxChunk == 2           \* delay_messages_chunk is at most this; the default 1000, scaled down
MaxDialogs == 5         \* entries the user makes in the login dialogs in one behaviour
MaxCodes == 2           \* login codes Telegram sends before it refuses (flood wait)
MaxRefreshes == 3       \* catalogue refreshes in one behaviour

\* The longest sanitised title.
NameLimit == 80

\* ------------------------------------------------------------------- texts
\* A text is a sequence of characters: "a" is any non-blank character and
\* " " any whitespace character.  <<>> is an absent or empty text.
TextChoices ==
    { <<>>, <<" ">>, <<"a">>, <<" ", "a", " ", "a">> }

RECURSIVE LStrip(_)
LStrip(t) == IF t # <<>> /\ Head(t) = " " THEN LStrip(Tail(t)) ELSE t

RECURSIVE RStrip(_)
RStrip(t) ==
    IF t # <<>> /\ t[Len(t)] = " " THEN RStrip(SubSeq(t, 1, Len(t) - 1)) ELSE t

\* str.strip()
Strip(t) == RStrip(LStrip(t))

\* The first word of a text that starts with a non-blank character: what
\* stands before the first blank.
FirstWord(t) ==
    LET blanks == { i \in 1..Len(t) : t[i] = " " }
        stop == IF blanks = {} THEN Len(t) + 1
                ELSE CHOOSE i \in blanks : \A j \in blanks : i <= j
    IN  SubSeq(t, 1, stop - 1)

\* str.split(): the maximal runs of non-blank characters, in order.
RECURSIVE Split(_)
Split(t) ==
    LET s == LStrip(t)
        w == FirstWord(s)
    IN  IF s = <<>> THEN <<>>
        ELSE <<w>> \o Split(SubSeq(s, Len(w) + 1, Len(s)))

\* ------------------------------------------------------------ optional int
None == <<>>
Some(n) == <<n>>
\* `x or 0`
OrZero(x) == IF x = None THEN 0 ELSE x[1]

\* --------------------------------------------------------------- the state
VARIABLES
    remote,             \* the chat's history: sequence of [id, text], ids ascending
    words_per_file,     \* the export setting, the same in every run
    index,              \* export_index.json: NoIndex or the saved record
    disk,               \* disk[i]: content of export file i that reached the disk
    buf,                \* what the open file object holds and has not written out
    pc,                 \* "idle", "streaming", "done", "failed", "dead";
                        \* "collecting" while the stats refresh reads the chat
    last_message_id,    \* locals of export_chat_history_md
    file_index,
    current_words,
    messages_processed,
    min_id,             \* min_id the message iterator was opened with
    cursor,             \* id of the last message the iterator yielded
    runs,               \* export invocations so far
    mishaps,            \* what went wrong so far: "killed", "failed", "unsaved"
    index_written,      \* the latest save_index call of the latest run succeeded
    snap,               \* disk and index at the start of a re-run with nothing new
    \* the application around the export (src/ui/ui_main.py): worker threads
    \* that share one TelegramManager, and the message_stats table
    authorized,         \* the Telegram session holds a valid login
    loop_owner,         \* the thread inside loop.run_until_complete, or 0
    thr,                \* thr[t]: the worker thread t and what it reported
    dialog,             \* the thread whose stats dialog is open and busy, or 0
    posts,              \* posts[c]: ids of the messages chat c holds now
    stats,              \* stats[c]: rows of message_stats for chat c
    committed,          \* committed[c]: the rows of the latest replace that succeeded
    chart,              \* what the latest request for a chart showed
    ckpt,               \* the chats an export has saved a checkpoint for
    exp_dirs,           \* <<chat, directory>> pairs exports have worked in
    requests,           \* exports and refreshes asked for so far
    \* the pacing of the message loop
    delay_messages_chunk,   \* the export settings
    delay_seconds,
    naps,               \* asyncio.sleep calls of the run in progress
    taken,              \* messages the iterator has yielded since the latest of them
    collected,          \* len(result) of the stats refresh in progress
    \* the login (connect and the dialogs of src/ui/ui_main.py)
    two_factor,         \* the account asks for a 2FA password
    prompt,             \* what the user is looking at: a dialog, or the outcome
    current_phone,      \* self.current_phone
    codes_sent,         \* send_code_request calls Telegram has answered with a code
    entered,            \* what the user has typed, dialog by dialog
    \* the catalogue (src/db_logic/database.py)
    platform,           \* the groups and channels of the account: tg_id -> title
    chats_table,        \* the rows of table chats
    chat_categories,    \* the rows of table chat_categories
    last_refresh,       \* how the latest catalogue refresh went
    refreshes           \* catalogue refreshes so far

expvars == <<remote, words_per_file, index, disk, buf, pc, last_message_id,
             file_index, current_words, messages_processed, min_id, cursor,
             runs, mishaps, index_written, snap>>

appvars == <<authorized, loop_owner, thr, dialog, posts, stats, committed,
             chart, ckpt, exp_dirs, requests>>

pacevars == <<delay_messages_chunk, delay_seconds, naps, taken, collected>>

loginvars == <<two_factor, prompt, current_phone, codes_sent, entered>>

catvars == <<platform, chats_table, chat_categories, last_refresh, refreshes>>

sidevars == <<loginvars, catvars>>

vars == <<expvars, appvars, pacevars, sidevars>>

\* Every run so far completed normally and wrote its checkpoints.
clean == mishaps = {}

\* No checkpoint write has failed and no run has ended in an error so far;
\* runs may have been killed.
OnlyKills == mishaps \subseteq {"killed"}

Unsaved(ms, ok) == IF ok THEN ms ELSE ms \cup {"unsaved"}

NoIndex == [kind |-> "absent"]
\* export_index.json exists and json.load cannot make a dict of it (or it
\* cannot be opened).
Garbage == [kind |-> "garbage"]
\* A last_message_id that was read from the checkpoint and is not an integer
\* (a JSON string such as "abc").
NotAnInt == <<0, 0>>
NoSnap == [kind |-> "none"]

\* Parts of an export file.
TitlePart == [k |-> "title"]
HeaderPart(id) == [k |-> "header", id |-> id]
IdPart(id) == [k |-> "id", id |-> id]
TextPart(id, body, w) == [k |-> "text", id |-> id, body |-> body, w |-> w]
SepPart(id) == [k |-> "sep", id |-> id]


\* ---------------------------------------------------------- the file system
\* file.close(), or the buffer written out: the pending parts reach file i.
Close(d, b, i) == [d EXCEPT ![i] = @ \o b]

\* path.open("a"): the file is created empty when it does not exist yet.
OpenAppend(d, i) == IF i > Len(d) THEN Append(d, <<>>) ELSE d

\* What a reader of file i sees once the open file is flushed.
View(i) == IF pc = "streaming" /\ i = file_index THEN disk[i] \o buf ELSE disk[i]

\* ----------------------------------------------------------- the checkpoint
\* The record save_index dumps (chat_id and chat_title are fixed: one chat).
\* bad names the fields whose stored value is not an integer: none in a
\* record save_index has written.
IndexRecord(lmi, fi, cw, wpf, t) ==
    [kind |-> "index",
     last_message_id |-> lmi,
     last_file_index |-> fi,
     current_file_word_count |-> cw,
     words_per_file |-> wpf,
     updated_at |-> t,
     bad |-> {}]

\* updated_at: the saves of a behaviour are told apart by the run and by the
\* number of the save within the run.
Stamp(n) == <<runs, n>>

\* [mutant of SaveIndex] nothing is written.
SaveIndexSkipped(old, lmi, fi, cw, wpf, t, ok) == old

\* save_index: the write may fail, and the failure is swallowed.
SaveIndex(old, lmi, fi, cw, wpf, t, ok) ==
    IF ok THEN IndexRecord(lmi, fi, cw, wpf, t) ELSE old

\* [mutant of AfterSave] a failed write ends the run.
AfterSaveRaising(ok, next) == IF ok THEN next ELSE "failed"

\* Where the run stands when save_index returns: `except Exception: pass`
\* lets it go on to `next` whether or not the write succeeded.
AfterSave(ok, next) == next

\* [mutant of LoadIndex] the stored watermark is not taken over.
LoadIndexNoWatermark(idx) ==
    IF idx = NoIndex
    THEN [last_message_id |-> None, file_index |-> 1, current_words |-> 0]
    ELSE [last_message_id |-> None,
          file_index |-> idx.last_file_index,
          current_words |-> idx.current_file_word_count]

\* [mutant of LoadIndex] every run starts at the first file again.
LoadIndexFirstFile(idx) ==
    IF idx = NoIndex \/ idx = Garbage
    THEN [last_message_id |-> None, file_index |-> 1, current_words |-> 0]
    ELSE [last_message_id |-> idx.last_message_id,
          file_index |-> 1,
          current_words |-> idx.current_file_word_count]

\* The progress the export starts from.  json.load raising, or int() raising
\* on last_file_index or current_file_word_count, resets all three locals;
\* last_message_id is taken over as it is found.
LoadIndex(idx) ==
    IF idx = NoIndex \/ idx = Garbage
    THEN [last_message_id |-> None, file_index |-> 1, current_words |-> 0]
    ELSE IF idx.bad \cap {"last_file_index", "current_file_word_count"} # {}
    THEN [last_message_id |-> None, file_index |-> 1, current_words |-> 0]
    ELSE [last_message_id |-> IF "last_message_id" \in idx.bad
                              THEN NotAnInt ELSE idx.last_message_id,
          file_index |-> idx.last_file_index,
          current_words |-> idx.current_file_word_count]

\* [mutant of MinId] the lower bound taken as inclusive.
MinIdInclusive(lmi) == IF lmi = None THEN 0 ELSE lmi[1] - 1

\* min_id=(last_message_id or 0)
MinId(lmi) == OrZero(lmi)

\* [mutant of NeedsTitle] a title header at every start.
NeedsTitleAlways(file_exists, size) == TRUE

\* A title header goes to the file opened at the start iff it is new or empty.
NeedsTitle(file_exists, size) == ~file_exists \/ size = 0

\* --------------------------------------------------------------- the writer
\* [mutant of RolloverNeeded] a file that would be exactly full rolls over.
RolloverAtLimit(cw, w, wpf) == cw > 0 /\ cw + w >= wpf

\* [mutant of RolloverNeeded] the limit taken one word too high.
RolloverLate(cw, w, wpf) == cw > 0 /\ cw + w > wpf + 1

RolloverNeeded(cw, w, wpf) == cw > 0 /\ cw + w > wpf

Record(id, text, w) ==
    <<HeaderPart(id), IdPart(id), TextPart(id, Strip(text), w), SepPart(id)>>

\* [mutant of WriteMessage] the header line is written before the word limit
\* is looked at, so a rollover falls between the header and the id marker.
WriteMessageHeaderFirst(st, id, text, w, wpf) ==
    LET roll == st.current_words > 0 /\ st.current_words + w > wpf
        st0 == [st EXCEPT !.buf = @ \o <<HeaderPart(id)>>]
        st1 == IF roll
               THEN [disk |-> OpenAppend(Close(st0.disk, st0.buf, st0.file_index),
                                         st0.file_index + 1),
                     buf |-> <<TitlePart>>,
                     file_index |-> st0.file_index + 1,
                     current_words |-> 0]
               ELSE st0
    IN  [st1 EXCEPT !.buf = @ \o <<IdPart(id), TextPart(id, Strip(text), w),
                                    SepPart(id)>>,
                    !.current_words = @ + w]

\* One message of w >= 1 words through the writer; st is
\* [disk, buf, file_index, current_words].
WriteMessage(st, id, text, w, wpf) ==
    LET roll == RolloverNeeded(st.current_words, w, wpf)
        st1 == IF roll
               THEN [disk |-> OpenAppend(Close(st.disk, st.buf, st.file_index),
                                         st.file_index + 1),
                     buf |-> <<TitlePart>>,
                     file_index |-> st.file_index + 1,
                     current_words |-> 0]
               ELSE st
    IN  [st1 EXCEPT !.buf = @ \o Record(id, text, w),
                    !.current_words = @ + w]

\* --------------------------------------------------------------- the pacing
\* The test at the end of a turn of the export loop: n is messages_processed
\* after the increment.
SleepDue(n, chunk, secs) == chunk > 0 /\ n % chunk = 0 /\ secs > 0

\* -------------------------------------------------------- the message source
LastId == IF remote = <<>> THEN 0 ELSE remote[Len(remote)].id

\* Positions of the messages the iterator has not yielded yet.
Pending == { i \in 1..Len(remote) : remote[i].id > cursor }

NextPos == CHOOSE i \in Pending : \A j \in Pending : i <= j

\* ---------------------------------------------------------- the application
Chats == {1, 2}
\* The chats in which messages are posted and deleted during a behaviour; a
\* refresh has stored their rows before.
Lively == {1}
Threads == {1, 2}

\* Chat titles the chat list can hand to an export: "/" is any character
\* that is not allowed in a file name, " " any whitespace character.  The
\* long title has a run of whitespace and a "/" and is NameLimit + 1
\* characters long after the whitespace is collapsed.
LongTitle ==
    <<"a", " ", " ", "/">> \o [i \in 1..(NameLimit - 2) |-> "a"]

TitleChoices == { <<>>, LongTitle }

\* " ".join(words)
RECURSIVE Join(_)
Join(ws) ==
    IF ws = <<>> THEN <<>>
    ELSE IF Len(ws) = 1 THEN ws[1]
    ELSE ws[1] \o <<" ">> \o Join(Tail(ws))

\* re.sub(r'[\\/:*?"<>|]', "_", title)
Sanitize(t) == [i \in 1..Len(t) |-> IF t[i] = "/" THEN "_" ELSE t[i]]

safe_chat_folder_name(title) ==
    LET t0 == IF title = <<>> THEN <<"c", "h", "a", "t">> ELSE title
        t1 == Sanitize(Join(Split(t0)))
    IN  IF Len(t1) > NameLimit THEN SubSeq(t1, 1, NameLimit) ELSE t1

\* f"{safe_chat_folder_name(chat_title)}_{chat_id}"
chat_folder_name(title, chat_id) ==
    safe_chat_folder_name(title) \o <<"_", chat_id>>

\* chat_folder_name of every title and chat an export can be started with,
\* as <<title, chat, folder>>.
FolderNames ==
    { <<p[1], p[2], chat_folder_name(p[1], p[2])>> : p \in TitleChoices \X Chats }

FolderOf(title, chat_id) ==
    (CHOOSE p \in FolderNames : p[1] = title /\ p[2] = chat_id)[3]

\* The messages of a chat as the stats refresh sees them: the date (a day
\* number stands for the date part of date_time) and the text of message id.
\* A lively chat has a message every other day, the other chats two a day;
\* every second message has no text.
DayOf(c, id) == IF c \in Lively THEN 2 * id - 1 ELSE (id + 1) \div 2
TextOf(id) == IF id % 2 = 1 THEN <<"a">> ELSE <<>>
Row(c, id) == [message_id |-> id, day |-> DayOf(c, id), text |-> TextOf(id)]
MaxDay == 2 * MaxStatMsgs
AllRows(c) == { Row(c, i) : i \in 1..MaxStatMsgs }

\* [mutant of CollectForStats] messages without text are left out.
CollectForStatsWorded(c, ids, min_message_id) ==
    { Row(c, i) : i \in { j \in ids : j > min_message_id /\ TextOf(j) # <<>> } }

\* get_chat_messages_for_stats: every message above max(0, min_message_id).
CollectForStats(c, ids, min_message_id) ==
    LET lo == IF min_message_id > 0 THEN min_message_id ELSE 0
    IN  { Row(c, i) : i \in { j \in ids : j > lo } }

\* [mutant of replace_message_stats_for_chat] the old rows are not deleted.
replace_message_stats_keeping(table, chat, rows) ==
    [table EXCEPT ![chat] = @ \cup rows]

\* One delete-and-bulk-insert keyed by the chat id, all or nothing.
replace_message_stats_for_chat(table, chat, rows) ==
    [table EXCEPT ![chat] = rows]

has_message_stats_for_chat(table, chat) == table[chat] # {}

RECURSIVE DailyFrom(_, _)
DailyFrom(rows, d) ==
    IF d > MaxDay THEN <<>>
    ELSE LET n == Cardinality({ r \in rows : r.day = d })
         IN  (IF n > 0 THEN << <<d, n>> >> ELSE <<>>) \o DailyFrom(rows, d + 1)

\* [mutant of get_daily_message_counts] every day of the range gets a pair.
get_daily_message_counts_filled(table, chat) ==
    [d \in 1..MaxDay |-> <<d, Cardinality({ r \in table[chat] : r.day = d })>>]

\* (date, count) per day that has rows, ascending by date.
get_daily_message_counts(table, chat) == DailyFrom(table[chat], 1)

NoChart == [kind |-> "none"]

\* _open_message_stats_chart_window up to the plot: nothing to show without
\* data, else one bar per day from the first day to the last, 0 where the
\* day has no pair.
ChartOf(chat, daily) ==
    IF daily = <<>>
    THEN [kind |-> "no_data", chat |-> chat, daily |-> daily, bars |-> <<>>]
    ELSE LET first_day == daily[1][1]
             last_day == daily[Len(daily)][1]
             count(d) == IF \E i \in 1..Len(daily) : daily[i][1] = d
                         THEN (CHOOSE p \in { daily[i] : i \in 1..Len(daily) } :
                                  p[1] = d)[2]
                         ELSE 0
         IN  [kind |-> "chart", chat |-> chat, daily |-> daily,
              bars |-> [k \in 1..(last_day - first_day + 1) |->
                           <<first_day + k - 1, count(first_day + k - 1)>>]]

\* [mutant of ConnectResult] the login state is not looked at.
ConnectResultAnyLogin(busy, auth) == IF busy THEN "error" ELSE "ok"

\* manager.connect() without a phone: run_until_complete raises while the
\* loop is running in another thread (caught, reported as an error text);
\* "phone" asks for a login.
ConnectResult(busy, auth) ==
    IF busy THEN "error" ELSE IF ~auth THEN "phone" ELSE "ok"

IdleThread ==
    [kind |-> "none", chat |-> 1, pc |-> "idle", build |-> FALSE,
     title |-> <<>>, rows |-> {}, note |-> "none", reason |-> ""]

\* [mutant of AfterReplace] the failure is not noticed.
AfterReplaceUnnoticed(th, ok) == [th EXCEPT !.pc = "stored"]

\* [mutant of Ended] the thread ends without telling the user.
EndedSilently(th, note, reason) ==
    [IdleThread EXCEPT !.kind = th.kind, !.chat = th.chat, !.pc = "ended",
                       !.reason = reason]

\* A thread that has ended with a notification to the user.
Ended(th, note, reason) ==
    [IdleThread EXCEPT !.kind = th.kind, !.chat = th.chat, !.pc = "ended",
                       !.note = note, !.reason = reason]

\* _update_message_stats_thread after replace_message_stats_for_chat: an
\* exception goes to the outer handler, which reports it and ends the thread.
AfterReplace(th, ok) ==
    IF ok THEN [th EXCEPT !.pc = "stored"]
    ELSE Ended(th, "update_error", "store")

AppStart ==
    /\ authorized = TRUE
    /\ loop_owner = 0
    /\ thr = [t \in Threads |-> IdleThread]
    /\ dialog = 0
    /\ posts = [c \in Chats |-> 1..MaxStatMsgs]
    /\ stats = [c \in Chats |-> IF c \in Lively THEN AllRows(c) ELSE {}]
    /\ committed = stats
    /\ chart = [view |-> NoChart, during |-> FALSE]
    /\ ckpt = {}
    /\ exp_dirs = {}
    /\ requests = 0

\* The settings as the application ships them (the chunk scaled down), no
\* run in progress.
PaceStart ==
    /\ delay_messages_chunk = MaxChunk
    /\ delay_seconds = 1
    /\ naps = 0
    /\ taken = 0
    /\ collected = 0

\* Nobody has touched the connect button; the account has no 2FA password.
LoginStart ==
    /\ two_factor = FALSE
    /\ prompt = "button"
    /\ current_phone = ""
    /\ codes_sent = 0
    /\ entered = <<>>

\* init_database on a new data directory: the tables exist and are empty.
CatalogStart ==
    /\ platform = <<>>
    /\ chats_table = {}
    /\ chat_categories = {}
    /\ last_refresh = "none"
    /\ refreshes = 0

\* ------------------------------------------------------------------ actions
Init ==
    /\ AppStart
    /\ PaceStart
    /\ LoginStart
    /\ CatalogStart
    /\ remote = <<>>
    /\ words_per_file \in 1..MaxWordsPerFile
    /\ index = NoIndex
    /\ disk = <<>>
    /\ buf = <<>>
    /\ pc = "idle"
    /\ last_message_id = None
    /\ file_index = 1
    /\ current_words = 0
    /\ messages_processed = 0
    /\ min_id = 0
    /\ cursor = 0
    /\ runs = 0
    /\ mishaps = {}
    /\ index_written = FALSE
    /\ snap = NoSnap

\* Somebody posts a message to the chat.
NewMessage ==
    /\ UNCHANGED <<appvars, sidevars, pacevars>>
    /\ Len(remote) < MaxMsgs
    /\ \E text \in TextChoices :
          remote' = Append(remote, [id |-> LastId + 1, text |-> text])
    /\ snap' = NoSnap
    /\ UNCHANGED <<words_per_file, index, disk, buf, pc, last_message_id,
                   file_index, current_words, messages_processed, min_id,
                   cursor, runs, mishaps, index_written>>

\* export_chat_history_md up to the message loop: load the checkpoint, open
\* the current file for appending, open the message iterator.
StartExport ==
    /\ UNCHANGED <<appvars, sidevars>>
    /\ naps' = 0
    /\ taken' = 0
    /\ UNCHANGED <<delay_messages_chunk, delay_seconds, collected>>
    /\ pc \in {"idle", "done", "failed", "dead"}
    /\ runs < MaxRuns
    /\ LET ld == LoadIndex(index)
           file_exists == ld.file_index <= Len(disk)
           d1 == OpenAppend(disk, ld.file_index)
           title == IF NeedsTitle(file_exists, Len(d1[ld.file_index]))
                    THEN <<TitlePart>> ELSE <<>>
       IN  /\ last_message_id' = ld.last_message_id
           /\ file_index' = ld.file_index
           /\ current_words' = ld.current_words
           /\ IF ld.last_message_id # NotAnInt
              THEN /\ disk' = d1
                   /\ buf' = title
                   /\ min_id' = MinId(ld.last_message_id)
                   /\ cursor' = MinId(ld.last_message_id)
                   /\ pc' = "streaming"
                   /\ mishaps' = mishaps
              ELSE \* min_id is not a number: the iterator raises on its
                   \* first use and the finally clause closes the file
                   /\ disk' = Close(d1, title, ld.file_index)
                   /\ buf' = <<>>
                   /\ min_id' = 0
                   /\ cursor' = 0
                   /\ pc' = "failed"
                   /\ mishaps' = mishaps \cup {"failed"}
    /\ messages_processed' = 0
    /\ runs' = runs + 1
    /\ index_written' = FALSE
    /\ snap' = IF pc = "done" /\ index_written /\ Pending = {}
               THEN [kind |-> "snap", disk |-> disk, index |-> index]
               ELSE NoSnap
    /\ UNCHANGED <<remote, words_per_file, index>>

\* One turn of the message loop.
ProcessMessage ==
    /\ UNCHANGED <<appvars, sidevars>>
    /\ UNCHANGED <<delay_messages_chunk, delay_seconds, collected>>
    /\ pc = "streaming"
    /\ Pending # {}
    /\ LET msg == remote[NextPos]
           text == msg.text
           msg_words == Len(Split(text))
       IN  /\ cursor' = msg.id
           /\ IF text = <<>> \/ msg_words = 0
              THEN /\ UNCHANGED <<index, disk, buf, last_message_id, file_index,
                                  current_words, messages_processed, mishaps,
                                  index_written, pc>>
                   /\ taken' = taken + 1
                   /\ naps' = naps
              ELSE LET st == WriteMessage(
                                [disk |-> disk, buf |-> buf,
                                 file_index |-> file_index,
                                 current_words |-> current_words],
                                msg.id, text, msg_words, words_per_file)
                   IN  /\ disk' = st.disk
                       /\ buf' = st.buf
                       /\ file_index' = st.file_index
                       /\ current_words' = st.current_words
                       /\ last_message_id' = Some(msg.id)
                       /\ messages_processed' = messages_processed + 1
                       /\ IF SleepDue(messages_processed + 1,
                                      delay_messages_chunk, delay_seconds)
                          THEN naps' = naps + 1 /\ taken' = 0
                          ELSE naps' = naps /\ taken' = taken + 1
                       /\ IF (messages_processed + 1) % FlushEvery = 0
                          THEN \E ok \in BOOLEAN :
                                 /\ index' = SaveIndex(index, Some(msg.id),
                                                st.file_index, st.current_words,
                                                words_per_file,
                                                Stamp(messages_processed + 1),
                                                ok)
                                 /\ index_written' = ok
                                 /\ mishaps' = Unsaved(mishaps, ok)
                                 /\ pc' = AfterSave(ok, "streaming")
                          ELSE UNCHANGED <<index, index_written, mishaps, pc>>
    /\ UNCHANGED <<remote, words_per_file, min_id, runs, snap>>

\* The source is exhausted: close the file, save the checkpoint, return.
Finish ==
    /\ UNCHANGED <<appvars, sidevars, pacevars>>
    /\ pc = "streaming"
    /\ Pending = {}
    /\ disk' = Close(disk, buf, file_index)
    /\ buf' = <<>>
    /\ \E ok \in BOOLEAN :
          /\ index' = SaveIndex(index, last_message_id, file_index,
                                current_words, words_per_file,
                                Stamp(messages_processed + 1), ok)
          /\ index_written' = ok
          /\ mishaps' = Unsaved(mishaps, ok)
          /\ pc' = AfterSave(ok, "done")
    /\ UNCHANGED <<remote, words_per_file, last_message_id, file_index,
                   current_words, messages_processed, min_id, cursor, runs,
                   snap>>

\* The iterator raises (network failure, flood wait): the exception leaves
\* _export, the finally clause closes the file, the caller gets the error.
StreamError ==
    /\ UNCHANGED <<appvars, sidevars, pacevars>>
    /\ pc = "streaming"
    /\ disk' = Close(disk, buf, file_index)
    /\ buf' = <<>>
    /\ pc' = "failed"
    /\ mishaps' = mishaps \cup {"failed"}
    /\ UNCHANGED <<remote, words_per_file, index, last_message_id, file_index,
                   current_words, messages_processed, min_id, cursor,
                   runs, index_written, snap>>

\* The process is terminated.  The first k parts of the buffer had been
\* written out when the buffer filled up; the rest is lost with the process,
\* and so are the locals of the run.
Kill ==
    /\ UNCHANGED <<appvars, sidevars>>
    /\ naps' = 0
    /\ taken' = 0
    /\ UNCHANGED <<delay_messages_chunk, delay_seconds, collected>>
    /\ pc = "streaming"
    /\ \E k \in 0..Len(buf) :
          disk' = Close(disk, SubSeq(buf, 1, k), file_index)
    /\ buf' = <<>>
    /\ pc' = "dead"
    /\ last_message_id' = None
    /\ file_index' = 1
    /\ current_words' = 0
    /\ messages_processed' = 0
    /\ min_id' = 0
    /\ cursor' = 0
    /\ mishaps' = mishaps \cup {"killed"}
    /\ index_written' = FALSE
    /\ snap' = NoSnap
    /\ UNCHANGED <<remote, words_per_file, index, runs>>

Next ==
    \/ NewMessage
    \/ StartExport
    \/ ProcessMessage
    \/ Finish
    \/ StreamError
    \/ Kill

Spec == Init /\ [][Next]_vars

\* ------------------------------------------- the application's worker threads
Refreshing(c) ==
    { t \in Threads : /\ thr[t].kind = "stats" /\ thr[t].chat = c
                      /\ thr[t].pc \in {"fetching", "fetched", "stored"} }

\* A new thread takes the first slot in which no thread is running (0: none).
FreeSlots == { t \in Threads : thr[t].pc \in {"idle", "ended"} }
FreeSlot ==
    IF FreeSlots = {} THEN 0
    ELSE CHOOSE t \in FreeSlots : \A u \in FreeSlots : t <= u

\* The stats dialog of a thread that has ended has its buttons enabled again.
Released(t) == IF dialog = t THEN 0 ELSE dialog

\* on_start of the export dialog: the dialog goes away and a thread runs
\* _export_chat_thread.
RequestExport(t) ==
    /\ requests < MaxRequests
    /\ dialog = 0
    /\ t = FreeSlot
    /\ \E c \in Chats, title \in TitleChoices :
          thr' = [thr EXCEPT ![t] = [IdleThread EXCEPT !.kind = "export",
                                        !.chat = c, !.pc = "start",
                                        !.title = title]]
    /\ requests' = requests + 1
    /\ UNCHANGED <<authorized, loop_owner, dialog, posts, stats, committed,
                   chart, ckpt, exp_dirs>>
    /\ UNCHANGED <<expvars, pacevars, sidevars>>

\* on_update_data, or on_build_chart for a chat without stored rows: the
\* buttons of the dialog are disabled and a thread runs
\* _update_message_stats_thread.
RequestRefresh(t) ==
    /\ requests < MaxRequests
    /\ dialog = 0
    /\ t = FreeSlot
    /\ \E c \in Chats, build \in BOOLEAN :
          /\ build => ~has_message_stats_for_chat(stats, c)
          /\ thr' = [thr EXCEPT ![t] = [IdleThread EXCEPT !.kind = "stats",
                                           !.chat = c, !.pc = "start",
                                           !.build = build]]
    /\ dialog' = t
    /\ requests' = requests + 1
    /\ UNCHANGED <<authorized, loop_owner, posts, stats, committed, chart,
                   ckpt, exp_dirs>>
    /\ UNCHANGED <<expvars, pacevars, sidevars>>

\* The user closes the stats dialog while its thread is at work.
CloseDialog ==
    /\ dialog # 0
    /\ dialog' = 0
    /\ UNCHANGED <<authorized, loop_owner, thr, posts, stats, committed,
                   chart, ckpt, exp_dirs, requests>>
    /\ UNCHANGED <<expvars, pacevars, sidevars>>

\* on_build_chart for a chat with stored rows:
\* _build_chart_from_existing_data.
BuildChart(c) ==
    /\ requests < MaxRequests
    /\ dialog = 0
    /\ has_message_stats_for_chat(stats, c)
    /\ chart' = [view |-> ChartOf(c, get_daily_message_counts(stats, c)),
                 during |-> Refreshing(c) # {}]
    /\ requests' = requests + 1
    /\ UNCHANGED <<authorized, loop_owner, thr, dialog, posts, stats,
                   committed, ckpt, exp_dirs>>
    /\ UNCHANGED <<expvars, pacevars, sidevars>>

\* manager.connect() at the start of either thread.
Connect(t) ==
    /\ thr[t].pc = "start"
    /\ LET r == ConnectResult(loop_owner # 0, authorized)
       IN  /\ thr' = [thr EXCEPT ![t] =
                        IF r = "ok" THEN [@ EXCEPT !.pc = "connected"]
                        ELSE IF r = "phone"
                        THEN Ended(@, "auth_required", "login needed")
                        ELSE Ended(@, "connect_error", "loop is running")]
           /\ dialog' = IF r = "ok" THEN dialog ELSE Released(t)
    /\ UNCHANGED <<authorized, loop_owner, posts, stats, committed, chart,
                   ckpt, exp_dirs, requests>>
    /\ UNCHANGED <<expvars, pacevars, sidevars>>

\* export_chat_history_md before run_until_complete: the chat directory is
\* made, the checkpoint read, the export file opened.
ExportOpen(t) ==
    /\ thr[t].kind = "export"
    /\ thr[t].pc = "connected"
    /\ thr' = [thr EXCEPT ![t].pc = "opened", ![t].title = <<>>]
    /\ exp_dirs' = exp_dirs \cup
                     {<<thr[t].chat, FolderOf(thr[t].title, thr[t].chat)>>}
    /\ UNCHANGED <<authorized, loop_owner, dialog, posts, stats, committed,
                   chart, ckpt, requests>>
    /\ UNCHANGED <<expvars, pacevars, sidevars>>

\* run_until_complete(_export()) begins: it raises while the loop is running
\* in another thread, and _export raises when the session has no login; the
\* finally clause closes the file and the thread reports the error.
ExportEnterLoop(t) ==
    /\ thr[t].kind = "export"
    /\ thr[t].pc = "opened"
    /\ IF loop_owner # 0
       THEN /\ thr' = [thr EXCEPT ![t] =
                         Ended(@, "export_error", "loop is running")]
            /\ UNCHANGED loop_owner
       ELSE IF ~authorized
       THEN /\ thr' = [thr EXCEPT ![t] =
                         Ended(@, "export_error", "not authorized")]
            /\ UNCHANGED loop_owner
       ELSE /\ thr' = [thr EXCEPT ![t].pc = "streaming"]
            /\ loop_owner' = t
    /\ UNCHANGED <<authorized, dialog, posts, stats, committed, chart, ckpt,
                   exp_dirs, requests>>
    /\ UNCHANGED <<expvars, pacevars, sidevars>>

\* The message loop of the export ends: the source is exhausted and the
\* checkpoint saved, or the source raises.
ExportLeaveLoop(t) ==
    /\ thr[t].kind = "export"
    /\ thr[t].pc = "streaming"
    /\ \E ok \in BOOLEAN :
          IF ok
          THEN /\ thr' = [thr EXCEPT ![t] =
                            Ended(@, "export_done", "")]
               /\ ckpt' = ckpt \cup {thr[t].chat}
          ELSE /\ thr' = [thr EXCEPT ![t] =
                            Ended(@, "export_error", "source")]
               /\ UNCHANGED ckpt
    /\ loop_owner' = 0
    /\ UNCHANGED <<authorized, dialog, posts, stats, committed, chart,
                   exp_dirs, requests>>
    /\ UNCHANGED <<expvars, pacevars, sidevars>>

\* run_until_complete(_collect()) begins.
StatsEnterLoop(t) ==
    /\ thr[t].kind = "stats"
    /\ thr[t].pc = "connected"
    /\ IF loop_owner # 0
       THEN /\ thr' = [thr EXCEPT ![t] =
                         Ended(@, "fetch_error", "loop is running")]
            /\ UNCHANGED loop_owner
            /\ dialog' = Released(t)
       ELSE IF ~authorized
       THEN /\ thr' = [thr EXCEPT ![t] =
                         Ended(@, "fetch_error", "not authorized")]
            /\ UNCHANGED loop_owner
            /\ dialog' = Released(t)
       ELSE /\ thr' = [thr EXCEPT ![t].pc = "fetching"]
            /\ loop_owner' = t
            /\ UNCHANGED dialog
    /\ UNCHANGED <<authorized, posts, stats, committed, chart, ckpt,
                   exp_dirs, requests>>
    /\ UNCHANGED <<expvars, pacevars, sidevars>>

\* _collect returns the list of all messages, or the source raises.
StatsLeaveLoop(t) ==
    /\ thr[t].kind = "stats"
    /\ thr[t].pc = "fetching"
    /\ \E ok \in BOOLEAN :
          IF ok
          THEN /\ thr' = [thr EXCEPT ![t] =
                            [@ EXCEPT !.pc = "fetched",
                                      !.rows = CollectForStats(thr[t].chat,
                                                              posts[thr[t].chat], 0)]]
               /\ UNCHANGED dialog
          ELSE /\ thr' = [thr EXCEPT ![t] = Ended(@, "fetch_error", "source")]
               /\ dialog' = Released(t)
    /\ loop_owner' = 0
    /\ UNCHANGED <<authorized, posts, stats, committed, chart, ckpt,
                   exp_dirs, requests>>
    /\ UNCHANGED <<expvars, pacevars, sidevars>>

\* replace_message_stats_for_chat(chat_tg_id, to_store); it may raise.
StatsReplace(t) ==
    /\ thr[t].kind = "stats"
    /\ thr[t].pc = "fetched"
    /\ \E ok \in BOOLEAN :
          LET th == AfterReplace(thr[t], ok)
              c == thr[t].chat
          IN  /\ thr' = [thr EXCEPT ![t] = th]
              /\ stats' = IF ok
                          THEN replace_message_stats_for_chat(stats, c, thr[t].rows)
                          ELSE stats
              /\ committed' = IF ok
                              THEN [committed EXCEPT ![c] = thr[t].rows]
                              ELSE committed
              /\ dialog' = IF th.pc = "ended" THEN Released(t) ELSE dialog
    /\ UNCHANGED <<authorized, loop_owner, posts, chart, ckpt, exp_dirs,
                   requests>>
    /\ UNCHANGED <<expvars, pacevars, sidevars>>

\* get_daily_message_counts, show_loaded_info, and the chart window when the
\* refresh was asked for with a chart.
StatsReport(t) ==
    /\ thr[t].kind = "stats"
    /\ thr[t].pc = "stored"
    /\ LET c == thr[t].chat
           daily_counts == get_daily_message_counts(stats, c)
       IN  /\ thr' = [thr EXCEPT ![t] = Ended(@, "loaded", "")]
           /\ chart' = IF thr[t].build
                       THEN [view |-> ChartOf(c, daily_counts),
                             during |-> Refreshing(c) # {t}]
                       ELSE chart
    /\ dialog' = Released(t)
    /\ UNCHANGED <<authorized, loop_owner, posts, stats, committed, ckpt,
                   exp_dirs, requests>>
    /\ UNCHANGED <<expvars, pacevars, sidevars>>

\* Somebody posts a message to a chat, or deletes one.
Post(c) ==
    /\ \E id \in (1..MaxStatMsgs) \ posts[c] :
          posts' = [posts EXCEPT ![c] = @ \cup {id}]
    /\ UNCHANGED <<authorized, loop_owner, thr, dialog, stats, committed,
                   chart, ckpt, exp_dirs, requests>>
    /\ UNCHANGED <<expvars, pacevars, sidevars>>

Delete(c) ==
    /\ \E id \in posts[c] : posts' = [posts EXCEPT ![c] = @ \ {id}]
    /\ UNCHANGED <<authorized, loop_owner, thr, dialog, stats, committed,
                   chart, ckpt, exp_dirs, requests>>
    /\ UNCHANGED <<expvars, pacevars, sidevars>>

\* The login of the session is withdrawn (from another device).
Logout ==
    /\ authorized
    /\ authorized' = FALSE
    /\ UNCHANGED <<loop_owner, thr, dialog, posts, stats, committed, chart,
                   ckpt, exp_dirs, requests>>
    /\ UNCHANGED <<expvars, pacevars, sidevars>>

AppNext ==
    \/ \E t \in Threads : RequestExport(t)
    \/ \E t \in Threads : RequestRefresh(t)
    \/ CloseDialog
    \/ \E c \in Chats : BuildChart(c)
    \/ \E t \in Threads : Connect(t)
    \/ \E t \in Threads : ExportOpen(t)
    \/ \E t \in Threads : ExportEnterLoop(t)
    \/ \E t \in Threads : ExportLeaveLoop(t)
    \/ \E t \in Threads : StatsEnterLoop(t)
    \/ \E t \in Threads : StatsLeaveLoop(t)
    \/ \E t \in Threads : StatsReplace(t)
    \/ \E t \in Threads : StatsReport(t)
    \/ \E c \in Lively : Post(c)
    \/ \E c \in Lively : Delete(c)
    \/ Logout

\* The application starts with no export in progress.
AppInit == Init /\ words_per_file = MaxWordsPerFile

AppSpec == AppInit /\ [][AppNext]_vars

\* ----------------------------------------------------- the runs, one by one
\* The next step of worker thread t.
RunStep(t) ==
    \/ Connect(t)
    \/ ExportOpen(t)
    \/ ExportEnterLoop(t)
    \/ ExportLeaveLoop(t)
    \/ StatsEnterLoop(t)
    \/ StatsLeaveLoop(t)
    \/ StatsReplace(t)
    \/ StatsReport(t)

\* The application with the chats' histories at rest.
LiveNext ==
    \/ \E t \in Threads : RequestExport(t)
    \/ \E t \in Threads : RequestRefresh(t)
    \/ CloseDialog
    \/ Logout
    \/ \E t \in Threads : RunStep(t)

\* A worker thread is a running thread of the process and the message
\* source is finite: a thread that can take a step takes it.
LiveSpec ==
    /\ AppInit
    /\ [][LiveNext]_vars
    /\ \A t \in Threads : WF_vars(RunStep(t))

\* ------------------------------------------------- the pacing of the two loops
\* export_settings of data/config.json are edited before the application
\* reads them at its start: any chunk from 0 (no pacing) up, any delay from
\* 0 (no pacing) up.
ChangeSettings ==
    /\ pc = "idle" /\ runs = 0 /\ remote = <<>>
    /\ \E chunk \in 0..MaxChunk, secs \in {0, 1} :
          /\ <<chunk, secs>> # <<delay_messages_chunk, delay_seconds>>
          /\ delay_messages_chunk' = chunk
          /\ delay_seconds' = secs
    /\ UNCHANGED <<naps, taken, collected>>
    /\ UNCHANGED <<expvars, appvars, sidevars>>

\* get_chat_messages_for_stats up to the message loop; the refresh asks for
\* every message (min_message_id = 0).  The event loop admits one run.
StartCollect ==
    /\ pc \in {"idle", "done", "failed", "dead"}
    /\ pc' = "collecting"
    /\ min_id' = 0
    /\ cursor' = 0
    /\ collected' = 0
    /\ naps' = 0
    /\ taken' = 0
    /\ snap' = NoSnap
    /\ UNCHANGED <<remote, words_per_file, index, disk, buf, last_message_id,
                   file_index, current_words, messages_processed, runs,
                   mishaps, index_written>>
    /\ UNCHANGED <<delay_messages_chunk, delay_seconds>>
    /\ UNCHANGED <<appvars, sidevars>>

\* One turn of the loop of _collect: the message goes to the result list.
CollectMessage ==
    /\ pc = "collecting"
    /\ Pending # {}
    /\ cursor' = remote[NextPos].id
    /\ collected' = collected + 1
    /\ taken' = taken + 1
    /\ naps' = naps
    /\ UNCHANGED <<remote, words_per_file, index, disk, buf, pc,
                   last_message_id, file_index, current_words,
                   messages_processed, min_id, runs, mishaps, index_written,
                   snap>>
    /\ UNCHANGED <<delay_messages_chunk, delay_seconds>>
    /\ UNCHANGED <<appvars, sidevars>>

\* The source is exhausted: _collect returns the list.
EndCollect ==
    /\ pc = "collecting"
    /\ Pending = {}
    /\ pc' = "idle"
    /\ UNCHANGED <<remote, words_per_file, index, disk, buf, last_message_id,
                   file_index, current_words, messages_processed, min_id,
                   cursor, runs, mishaps, index_written, snap>>
    /\ UNCHANGED <<appvars, pacevars, sidevars>>

PaceNext ==
    \/ NewMessage
    \/ StartExport
    \/ ProcessMessage
    \/ Finish
    \/ StreamError
    \/ Kill
    \/ ChangeSettings
    \/ StartCollect
    \/ CollectMessage
    \/ EndCollect

PaceSpec == AppInit /\ [][PaceNext]_vars

\* --------------------------------------------------------------- the login
Entries == {"good", "bad"}

\* TelegramManager.connect(phone, code, password) on a session that is
\* authorized or not; "" stands for an argument that is None.  The answer is
\* "ok", the dialog to show next, or "error".  send_code_request sends a code
\* to a valid number until Telegram refuses further codes.
connect(auth, phone, code, password) ==
    IF auth THEN "ok"
    ELSE IF phone = "" THEN "phone"
    ELSE IF code = "" THEN
        IF phone = "good" /\ codes_sent < MaxCodes THEN "code" ELSE "error"
    ELSE IF phone # "good" \/ code # "good" THEN "error"
    ELSE IF ~two_factor THEN "ok"
    ELSE IF password = "" THEN "password"
    ELSE IF password = "good" THEN "ok"
    ELSE "error"

\* What connect_thread and continue_connection do with the answer.
Shown(answer) == IF answer = "ok" THEN "connected" ELSE answer

\* The effect of connect(phone, code, password) on the session and on the
\* codes sent, and the dialog or outcome shown next.
Connection(phone, code, password) ==
    LET answer == connect(authorized, phone, code, password)
    IN  /\ prompt' = Shown(answer)
        /\ authorized' = (answer = "ok")
        /\ codes_sent' = IF ~authorized /\ phone # "" /\ code = "" /\ answer = "code"
                         THEN codes_sent + 1 ELSE codes_sent

LoginFrame ==
    /\ UNCHANGED <<loop_owner, thr, dialog, posts, stats, committed, chart,
                   ckpt, exp_dirs, requests>>
    /\ UNCHANGED <<expvars, pacevars, catvars>>

\* The account gets a 2FA password before anybody logs in.
EnableTwoFactor ==
    /\ prompt = "button"
    /\ ~two_factor
    /\ two_factor' = TRUE
    /\ UNCHANGED <<authorized, prompt, current_phone, codes_sent, entered>>
    /\ LoginFrame

\* on_connect_clicked, connect_to_telegram and connect_thread: the button is
\* clickable, a new manager calls connect() without arguments.
ClickConnect ==
    /\ prompt \in {"button", "connected", "error"}
    /\ Connection("", "", "")
    /\ UNCHANGED <<two_factor, current_phone, entered>>
    /\ LoginFrame

\* request_phone_dialog confirmed with p, and continue_connection(p, None, None).
EnterPhone(p) ==
    /\ prompt = "phone"
    /\ Len(entered) < MaxDialogs
    /\ current_phone' = p
    /\ entered' = Append(entered, <<"phone", p>>)
    /\ Connection(p, "", "")
    /\ UNCHANGED two_factor
    /\ LoginFrame

\* request_code_dialog confirmed with c, and continue_connection(phone, c, None).
EnterCode(c) ==
    /\ prompt = "code"
    /\ Len(entered) < MaxDialogs
    /\ entered' = Append(entered, <<"code", c>>)
    /\ Connection(current_phone, c, "")
    /\ UNCHANGED <<two_factor, current_phone>>
    /\ LoginFrame

\* request_password_dialog confirmed with w, and
\* continue_connection(phone, None, w).
EnterPassword(w) ==
    /\ prompt = "password"
    /\ Len(entered) < MaxDialogs
    /\ entered' = Append(entered, <<"password", w>>)
    /\ Connection(current_phone, "", w)
    /\ UNCHANGED <<two_factor, current_phone>>
    /\ LoginFrame

\* A dialog is closed without an entry: no thread is started and the connect
\* button stays disabled.
Dismiss ==
    /\ prompt \in {"phone", "code", "password"}
    /\ prompt' = "closed"
    /\ UNCHANGED <<authorized, two_factor, current_phone, codes_sent, entered>>
    /\ LoginFrame

LoginNext ==
    \/ EnableTwoFactor
    \/ ClickConnect
    \/ \E p \in Entries : EnterPhone(p)
    \/ \E c \in Entries : EnterCode(c)
    \/ \E w \in Entries : EnterPassword(w)
    \/ Dismiss
    \/ Logout

LoginSpec == AppInit /\ [][LoginNext]_vars

\* ----------------------------------------------------------- the catalogue
DialogNames == {"a", "b"}       \* dialog.name of a group or channel
Categories == {1, 2}            \* the ids in table categories

\* get_chats_and_channels: the groups and channels of the account as rows, or
\* the empty list when iterating the dialogs raised (the exception is printed
\* and chats_list, still empty, is returned).
get_chats_and_channels(fetched) ==
    IF fetched
    THEN { [tg_id |-> c, title |-> platform[c]] : c \in DOMAIN platform }
    ELSE {}

\* [mutant of save_chats] deleting a chat's row deletes its assignments.
save_chats_cascading(db, chats) ==
    [chats |-> chats, chat_categories |-> {}]

\* save_chats: DELETE FROM chats, then one INSERT per chat of the list.  The
\* connection does not turn foreign keys on, so ON DELETE CASCADE of
\* chat_categories does not act.
save_chats(db, chats) ==
    [chats |-> chats, chat_categories |-> db.chat_categories]

\* get_chats_for_display: one row per chat of the table with the categories
\* assigned to its tg_id.
get_chats_for_display(tbl, assigned) ==
    { [tg_id |-> r.tg_id, title |-> r.title,
       categories |-> { k \in Categories : <<r.tg_id, k>> \in assigned }]
      : r \in tbl }

CatalogFrame ==
    /\ UNCHANGED <<loop_owner, thr, dialog, posts, stats, committed, chart,
                   ckpt, exp_dirs, requests>>
    /\ UNCHANGED <<expvars, pacevars, loginvars>>

\* The account joins a group or channel.
JoinChat(c, name) ==
    /\ c \notin DOMAIN platform
    /\ platform' = [x \in DOMAIN platform \cup {c} |->
                       IF x = c THEN name ELSE platform[x]]
    /\ UNCHANGED <<authorized, chats_table, chat_categories, last_refresh,
                   refreshes>>
    /\ CatalogFrame

\* The account leaves one.
LeaveChat(c) ==
    /\ c \in DOMAIN platform
    /\ platform' = [x \in DOMAIN platform \ {c} |-> platform[x]]
    /\ UNCHANGED <<authorized, chats_table, chat_categories, last_refresh,
                   refreshes>>
    /\ CatalogFrame

\* A group or channel gets another name.
RenameChat(c, name) ==
    /\ c \in DOMAIN platform
    /\ platform[c] # name
    /\ platform' = [platform EXCEPT ![c] = name]
    /\ UNCHANGED <<authorized, chats_table, chat_categories, last_refresh,
                   refreshes>>
    /\ CatalogFrame

\* add_category_to_chat for a chat of the table.
AddCategory(c, k) ==
    /\ \E r \in chats_table : r.tg_id = c
    /\ <<c, k>> \notin chat_categories
    /\ chat_categories' = chat_categories \cup {<<c, k>>}
    /\ UNCHANGED <<authorized, platform, chats_table, last_refresh, refreshes>>
    /\ CatalogFrame

\* remove_category_from_chat for a chat of the table.
RemoveCategory(c, k) ==
    /\ \E r \in chats_table : r.tg_id = c
    /\ <<c, k>> \in chat_categories
    /\ chat_categories' = chat_categories \ {<<c, k>>}
    /\ UNCHANGED <<authorized, platform, chats_table, last_refresh, refreshes>>
    /\ CatalogFrame

\* update_data_thread: connect(), get_chats_and_channels(), save_chats(chats).
\* Without an authorized session the thread returns after connect().
Refresh(fetched) ==
    /\ refreshes < MaxRefreshes
    /\ refreshes' = refreshes + 1
    /\ IF ~authorized
       THEN /\ last_refresh' = "unauthorized"
            /\ UNCHANGED <<chats_table, chat_categories>>
       ELSE LET chats == get_chats_and_channels(fetched)
                db == save_chats([chats |-> chats_table,
                                  chat_categories |-> chat_categories], chats)
            IN  /\ chats_table' = db.chats
                /\ chat_categories' = db.chat_categories
                /\ last_refresh' = IF fetched THEN "saved" ELSE "fetch_failed"
    /\ UNCHANGED <<authorized, platform>>
    /\ CatalogFrame

CatalogNext ==
    \/ \E c \in Chats, name \in DialogNames : JoinChat(c, name)
    \/ \E c \in Chats : LeaveChat(c)
    \/ \E c \in Chats, name \in DialogNames : RenameChat(c, name)
    \/ \E c \in Chats, k \in Categories : AddCategory(c, k)
    \/ \E c \in Chats, k \in Categories : RemoveCategory(c, k)
    \/ \E fetched \in BOOLEAN : Refresh(fetched)
    \/ Logout

CatalogSpec == AppInit /\ [][CatalogNext]_vars




\* ------------------------------------------------------ reading the files
WordsOf(text) == Len(Split(text))

\* A whole record of message m starts at position p of an export file.
RecordAt(content, p, m) ==
    /\ p + 3 <= Len(content)
    /\ SubSeq(content, p, p + 3) = Record(m.id, m.text, WordsOf(m.text))

\* The places (file, position) where a whole record of m stands.
Copies(m) ==
    { fp \in (1..Len(disk)) \X (1..(4 * MaxMsgs * MaxRuns + MaxRuns + MaxMsgs)) :
         RecordAt(View(fp[1]), fp[2], m) }

\* The places where any part naming message id stands.
PartsNaming(id) ==
    { fp \in (1..Len(disk)) \X (1..(4 * MaxMsgs * MaxRuns + MaxRuns + MaxMsgs)) :
         /\ fp[2] <= Len(View(fp[1]))
         /\ View(fp[1])[fp[2]].k # "title"
         /\ View(fp[1])[fp[2]].id = id }

\* The messages the latest run has been handed: those up to the cursor.
Seen == { i \in 1..Len(remote) : remote[i].id <= cursor }

\* -------------------------------------------------------------------- C1
\* C1 as stated: over runs that all complete normally, with the checkpoint
\* written every time, every message whose text is not empty stands in the
\* export files exactly once.
C1_NonEmptyExactlyOnce ==
    (clean /\ pc = "done") =>
        \A i \in Seen :
            remote[i].text # <<>> => Cardinality(Copies(remote[i])) = 1

\* C1 amended: over runs that all complete normally, with the checkpoint
\* written every time, every message whose text holds at least one word
\* stands in the export files exactly once, whole, and no part of any other
\* message stands there.
C1_WordedExactlyOnce ==
    (clean /\ pc = "done") =>
        \A i \in Seen :
            IF WordsOf(remote[i].text) >= 1
            THEN /\ Cardinality(Copies(remote[i])) = 1
                 /\ Cardinality(PartsNaming(remote[i].id)) = 4
            ELSE PartsNaming(remote[i].id) = {}

\* Two completed runs, the second resumed from a checkpoint and wrote a
\* message, and a blank-only message was passed over.
C1_Witness ==
    /\ clean /\ pc = "done" /\ runs = 2
    /\ min_id > 0 /\ messages_processed >= 1
    /\ \E i \in Seen : remote[i].text # <<>> /\ WordsOf(remote[i].text) = 0
    /\ \E i \in Seen : remote[i].id <= min_id /\ WordsOf(remote[i].text) >= 1

\* -------------------------------------------------------------------- C2
\* The watermark of the checkpoint on disk: 0 without a checkpoint or with a
\* null last_message_id.
StoredWatermark ==
    IF index = NoIndex THEN 0
    ELSE IF index.last_message_id = None THEN 0
    ELSE index.last_message_id[1]

\* C2: a run opens the message source with min_id equal to the checkpoint's
\* last_message_id (0 without one), and every message it is handed has an id
\* above min_id and above the id of the message handed before it.
C2_ResumeAboveWatermark ==
    [][ /\ (pc # "streaming" /\ pc' = "streaming")
            => (min_id' = StoredWatermark /\ cursor' = min_id')
        /\ (pc = "streaming" /\ pc' = "streaming" /\ cursor' # cursor)
            => /\ cursor' > cursor
               /\ cursor' > min_id
               /\ \A i \in 1..Len(remote) :
                     remote[i].id > cursor => remote[i].id >= cursor'
      ]_vars

\* A resumed run has been handed a message.
C2_Witness ==
    pc = "streaming" /\ min_id > 0 /\ cursor > min_id

\* -------------------------------------------------------------------- C3
\* C3: when a run that was handed messages has completed and saved its
\* checkpoint, the stored last_message_id is the largest id it was handed.
C3_WatermarkIsMaxSeen ==
    (pc = "done" /\ index_written /\ cursor > min_id)
        => index.last_message_id = Some(cursor)


\* -------------------------------------------------------------------- C4
\* Every id marker, text and separator of a file directly follows the
\* preceding part of the same message's record.
Unbroken(content) ==
    \A p \in 1..Len(content) :
        LET q == content[p]
        IN  /\ q.k = "id" => (p > 1 /\ content[p - 1] = HeaderPart(q.id))
            /\ q.k = "text" => (p > 1 /\ content[p - 1] = IdPart(q.id))
            /\ q.k = "sep" => (p > 1 /\ content[p - 1].k = "text"
                                     /\ content[p - 1].id = q.id)

\* Every header line of a file is followed by the rest of its record.
Complete(content) ==
    \A p \in 1..Len(content) :
        content[p].k = "header" =>
            /\ p + 3 <= Len(content)
            /\ content[p + 1] = IdPart(content[p].id)
            /\ content[p + 2].k = "text" /\ content[p + 2].id = content[p].id
            /\ content[p + 3] = SepPart(content[p].id)

\* C4: in every export file the parts of a record stand together: no part
\* follows a rollover that its predecessor preceded, and as long as no run
\* was cut short every record that was begun is whole in its file, also a
\* record of more than words_per_file words.
C4_RecordInOneFile ==
    \A i \in 1..Len(disk) :
        /\ Unbroken(View(i))
        /\ clean => Complete(View(i))

\* A rollover has happened and a message of more than words_per_file words
\* stands whole in a file.
C4_Witness ==
    /\ clean /\ pc = "done" /\ Len(disk) >= 2
    /\ \E i \in 1..Len(remote) :
          /\ WordsOf(remote[i].text) > words_per_file
          /\ Copies(remote[i]) # {}

\* -------------------------------------------------------------------- C5
RECURSIVE WriteAll(_, _, _)
\* The writer run over a list of [id, text, w] from state st.
WriteAll(st, msgs, wpf) ==
    IF msgs = <<>> THEN st
    ELSE WriteAll(WriteMessage(st, Head(msgs).id, Head(msgs).text,
                               Head(msgs).w, wpf),
                  Tail(msgs), wpf)

\* The ids of the messages whose text stands in a file.
IdsIn(content) ==
    { content[p].id : p \in { q \in 1..Len(content) : content[q].k = "text" } }

\* The scenario: ids 10, 11, 12 of 30000, 25000 and 10000 words into a fresh
\* export with words_per_file = 50000.
ScenarioFiles ==
    LET st == WriteAll([disk |-> <<<<>>>>, buf |-> <<TitlePart>>,
                        file_index |-> 1, current_words |-> 0],
                       <<[id |-> 10, text |-> <<"a">>, w |-> 30000],
                         [id |-> 11, text |-> <<"a">>, w |-> 25000],
                         [id |-> 12, text |-> <<"a">>, w |-> 10000]>>,
                       50000)
    IN  Close(st.disk, st.buf, st.file_index)

\* C5: a step that writes a message of w words rolls over (the old file is
\* closed with all that was written to it, file_index grows by one, the new
\* file exists and starts with a title, current_words restarts at w) exactly
\* when current_words > 0 and current_words + w > words_per_file; otherwise
\* the record goes to the current file and current_words grows by w.  In the
\* scenario file 1 holds {10} and file 2 holds {11, 12}.
C5_RolloverRule ==
    /\ [][ (pc = "streaming" /\ messages_processed' = messages_processed + 1) =>
            LET m == remote[NextPos]
                w == WordsOf(m.text)
                rec == Record(m.id, m.text, w)
            IN  IF current_words > 0 /\ current_words + w > words_per_file
                THEN /\ file_index' = file_index + 1
                     /\ current_words' = w
                     /\ Len(disk') >= file_index'
                     /\ disk'[file_index] = disk[file_index] \o buf
                     /\ buf' = <<TitlePart>> \o rec
                ELSE /\ file_index' = file_index
                     /\ current_words' = current_words + w
                     /\ disk' = disk
                     /\ buf' = buf \o rec
         ]_vars
    /\ Len(ScenarioFiles) = 2
    /\ IdsIn(ScenarioFiles[1]) = {10}
    /\ IdsIn(ScenarioFiles[2]) = {11, 12}

\* The scenario in small: after one run file 1 holds the first message alone
\* and file 2 the second and the third, which fill it exactly.
C5_Witness ==
    /\ pc = "done" /\ runs = 1 /\ Len(remote) = 3 /\ Len(disk) = 2
    /\ IdsIn(disk[1]) = {1}
    /\ IdsIn(disk[2]) = {2, 3}
    /\ current_words = words_per_file

\* -------------------------------------------------------------------- C6
RECURSIVE TextWords(_)
\* The words of message text in a file.
TextWords(content) ==
    IF content = <<>> THEN 0
    ELSE (IF Head(content).k = "text" THEN Head(content).w ELSE 0)
         + TextWords(Tail(content))

\* The number of message texts in a file.
TextCount(content) ==
    Cardinality({ p \in 1..Len(content) : content[p].k = "text" })

SizeBounded ==
    \A i \in 1..Len(disk) :
        TextCount(View(i)) > 1 => TextWords(View(i)) <= words_per_file

\* C6 as stated: after any runs that completed or were killed and resumed,
\* the checkpoint writes succeeding, a file with more than one message holds
\* at most words_per_file words.
C6_SizeBoundedAlways ==
    (pc # "streaming" /\ OnlyKills) => SizeBounded

\* C6 amended: as long as every run completed normally and wrote its
\* checkpoints, a file with more than one message holds at most
\* words_per_file words.
C6_SizeBoundedCleanRuns ==
    clean => SizeBounded

\* Two completed runs, and the second added a message to a file that holds
\* two messages now while another file exists.
C6_Witness ==
    /\ clean /\ pc = "done" /\ runs = 2 /\ messages_processed >= 1
    /\ Len(disk) >= 2
    /\ \E i \in 1..Len(disk) : TextCount(disk[i]) = 2

\* -------------------------------------------------------------------- C7
\* The checkpoint without its updated_at.
Progress(idx) ==
    <<idx.last_message_id, idx.last_file_index, idx.current_file_word_count,
      idx.words_per_file>>

\* C7: a run that starts after a completed export whose checkpoint was saved,
\* with no message newer than that export saw, changes no export file and
\* leaves every checkpoint field but updated_at as it was.
C7_IdempotentResume ==
    snap # NoSnap =>
        /\ disk = snap.disk
        /\ buf = <<>>
        /\ index # NoIndex
        /\ Progress(index) = Progress(snap.index)

\* Such a re-run has completed and stamped the checkpoint anew, after going
\* over an old message without words once more.
C7_Witness ==
    /\ snap # NoSnap /\ pc = "done" /\ index_written
    /\ index.updated_at # snap.index.updated_at
    /\ cursor > min_id
    /\ \E i \in 1..Len(disk) : TextCount(disk[i]) >= 1


\* -------------------------------------------------------------------- C8
\* The messages the run in progress has been handed that lie above the
\* watermark of the checkpoint on disk: a run started after a kill at this
\* point is handed them again.
Refetched ==
    { i \in 1..Len(remote) :
         remote[i].id > StoredWatermark /\ remote[i].id <= cursor }

\* C8: with the checkpoint saved after every FlushEvery messages, a kill at
\* any point of a run makes the next run fetch again at most FlushEvery of
\* the messages the killed run had fetched.
C8_RefetchWithinCadence ==
    (pc = "streaming" /\ OnlyKills) => Cardinality(Refetched) <= FlushEvery

\* -------------------------------------------------------------------- C9
\* C9: after runs of which some were killed, once an export has run to
\* completion every message it has passed that holds at least one word
\* stands whole in an export file.
C9_NoLossAfterKill ==
    (pc = "done" /\ OnlyKills) =>
        \A i \in Seen :
            WordsOf(remote[i].text) >= 1 => Copies(remote[i]) # {}

\* ------------------------------------------------------------------- C10
\* C10: when an export that has written messages ends in an error, the
\* checkpoint on disk records the progress the run had made.
C10_CheckpointOnError ==
    (pc = "failed" /\ messages_processed > 0 /\ "unsaved" \notin mishaps) =>
        /\ index # NoIndex
        /\ Progress(index) =
              <<last_message_id, file_index, current_words, words_per_file>>

\* ------------------------------------------------------------------- C11
\* The step that ends a run normally.
Completes == pc = "streaming" /\ pc' = "done"

\* C11: the step that completes a run closes the active file (everything the
\* run had buffered is in the file) and makes exactly one more checkpoint
\* write, whether or not the run wrote a message; the record written carries
\* the run's final last_message_id, file_index and current_words and a stamp
\* of its own, and nothing writes the checkpoint once the run has completed.
C11_FinalCheckpoint ==
    [][ /\ Completes =>
              /\ buf' = <<>>
              /\ disk' = [disk EXCEPT ![file_index] = @ \o buf]
              /\ IF index_written'
                 THEN /\ index' # NoIndex
                      /\ Progress(index') = <<last_message_id, file_index,
                                              current_words, words_per_file>>
                      /\ index'.updated_at = <<runs, messages_processed + 1>>
                      /\ index' # index
                 ELSE index' = index /\ "unsaved" \in mishaps'
        /\ (pc = "done" /\ pc' = "done") => index' = index
      ]_vars

\* A second run found nothing new, wrote no message and still stamped the
\* checkpoint on completion.
C11_Witness ==
    /\ pc = "done" /\ runs = 2 /\ clean
    /\ messages_processed = 0 /\ cursor = min_id /\ min_id > 0
    /\ index_written /\ index.updated_at = <<2, 1>>

\* ------------------------------------------------------------------- C13
\* The messages with at least one word that the latest run has been handed.
HandedWorded ==
    { i \in Seen : remote[i].id > min_id /\ WordsOf(remote[i].text) >= 1 }

\* The last four parts of the open file's buffer.
BufTail(b) == IF Len(b) < 4 THEN b ELSE SubSeq(b, Len(b) - 3, Len(b))

\* C13: a checkpoint write that fails does not end the run.  Every message
\* with words the run is handed is written and leaves the run in the message
\* loop, whether or not a checkpoint write was due and succeeded; a run whose
\* source is exhausted ends normally whatever became of the final write; and
\* a run that has ended normally has written every message with words it was
\* handed.
C13_SaveFailureNotFatal ==
    /\ [][ /\ (pc = "streaming" /\ cursor' # cursor /\ pc' # "dead") =>
                LET m == remote[NextPos]
                IN  WordsOf(m.text) >= 1 =>
                       /\ pc' = "streaming"
                       /\ messages_processed' = messages_processed + 1
                       /\ BufTail(buf') = Record(m.id, m.text, WordsOf(m.text))
           /\ (pc = "streaming" /\ Pending = {} /\ pc' \notin {"streaming", "dead"}
                 /\ "failed" \notin mishaps')
                => pc' = "done"
         ]_vars
    /\ [](pc = "done" =>
             /\ messages_processed = Cardinality(HandedWorded)
             /\ buf = <<>>)

\* A run whose periodic and final checkpoint writes all failed has completed
\* with its messages in the files and no checkpoint on disk.
C13_Witness ==
    /\ pc = "done" /\ runs = 1 /\ mishaps = {"unsaved"}
    /\ index = NoIndex /\ ~index_written
    /\ messages_processed > FlushEvery
    /\ \A i \in HandedWorded : Cardinality(Copies(remote[i])) = 1

\* ------------------------------------------------------------------- C12
IndexFields == {"last_message_id", "last_file_index", "current_file_word_count"}

\* The checkpoint of an export that wrote message 1, damaged afterwards: not
\* readable as JSON at all, or with a string that is no number in place of
\* one or more of the progress fields.
DamagedIndexes(wpf) ==
    {Garbage} \cup
    { [IndexRecord(Some(1), 1, 1, wpf, <<0, 1>>) EXCEPT !.bad = b] :
         b \in (SUBSET IndexFields) \ {{}} }

Damaged(idx) == idx = Garbage \/ (idx.kind = "index" /\ idx.bad # {})

\* An export directory that holds message 1 and a damaged checkpoint.
InitDamaged ==
    /\ AppStart
    /\ PaceStart
    /\ LoginStart
    /\ CatalogStart
    /\ remote = << [id |-> 1, text |-> <<"a">>] >>
    /\ words_per_file \in 1..MaxWordsPerFile
    /\ index \in DamagedIndexes(words_per_file)
    /\ disk = << <<TitlePart>> \o Record(1, <<"a">>, 1) >>
    /\ buf = <<>>
    /\ pc = "idle"
    /\ last_message_id = None
    /\ file_index = 1
    /\ current_words = 0
    /\ messages_processed = 0
    /\ min_id = 0
    /\ cursor = 0
    /\ runs = 0
    /\ mishaps = {}
    /\ index_written = FALSE
    /\ snap = NoSnap

LoadSpec == InitDamaged /\ [][Next]_vars

\* C12: a run that finds a damaged checkpoint does not fail; it drops every
\* stored field and starts as a fresh export: the message source opened from
\* id 0, file index 1, word count 0.
C12_DamagedIndexStartsFresh ==
    [][ (runs' = runs + 1 /\ Damaged(index)) =>
            /\ pc' = "streaming"
            /\ last_message_id' = None
            /\ min_id' = 0
            /\ file_index' = 1
            /\ current_words' = 0
      ]_vars

\* ------------------------------------------------------------------- C14
\* Thread t is at a point where the code looks at the login of the session:
\* connect() at the start of either thread, and the first lines of _export
\* and _collect.
AuthChecked(t) ==
    \/ thr[t].pc = "start"
    \/ thr[t].kind = "export" /\ thr[t].pc = "opened"
    \/ thr[t].kind = "stats" /\ thr[t].pc = "connected"

FailureNotes == {"auth_required", "connect_error", "export_error", "fetch_error"}

\* C14: a thread that reaches a login check while the session has no login
\* ends there with a failure note and a reason; it does not enter the message
\* loop, the checkpoints and the stats table stay as they were, and a thread
\* that has ended does nothing until the user asks for a new run.
C14_NotAuthorizedFails ==
    [][ \A t \in Threads :
          /\ (~authorized /\ AuthChecked(t) /\ thr'[t] # thr[t]) =>
                /\ thr'[t].pc = "ended"
                /\ thr'[t].note \in FailureNotes
                /\ thr'[t].reason # ""
                /\ loop_owner' = loop_owner
                /\ stats' = stats
                /\ ckpt' = ckpt
          /\ (thr[t].pc = "ended" /\ thr'[t] # thr[t]) =>
                (thr'[t].pc = "start" /\ requests' = requests + 1)
      ]_vars

\* A refresh was turned away by connect() and an export found the login gone
\* when its message loop was about to start.
C14_Witness ==
    /\ ~authorized
    /\ \E t \in Threads : /\ thr[t].kind = "stats"
                          /\ thr[t].note = "auth_required"
    /\ \E t \in Threads : /\ thr[t].kind = "export"
                          /\ thr[t].note = "export_error"
                          /\ thr[t].reason = "not authorized"
    /\ ckpt = {} /\ stats = committed /\ stats[1] = AllRows(1)

\* ------------------------------------------------------------------- C15
\* C15: all exports of one chat id work in one directory, whatever title
\* they were started with.
C15_OneDirectoryPerChat ==
    \A p \in exp_dirs, q \in exp_dirs : p[1] = q[1] => p[2] = q[2]

\* ------------------------------------------------------------------- C16
\* C16: the list a refresh collects holds every message the chat has at that
\* moment, those without text included, and the replace that follows leaves
\* exactly the collected rows stored for the chat and the rows of every
\* other chat as they were.
C16_ReplaceIsExact ==
    [][ \A t \in Threads :
          LET c == thr[t].chat
          IN  /\ (thr[t].pc = "fetching" /\ thr'[t].pc = "fetched") =>
                    /\ { r.message_id : r \in thr'[t].rows } = posts[c]
                    /\ \A r \in thr'[t].rows : r = Row(c, r.message_id)
              /\ (thr[t].pc = "fetched" /\ thr'[t].pc = "stored") =>
                    /\ stats'[c] = thr[t].rows
                    /\ \A d \in Chats \ {c} : stats'[d] = stats[d]
      ]_vars

\* A refresh of chat 1 has stored a message without text and dropped the row
\* of message 1, which the chat no longer has; the rows that a refresh of
\* chat 2 had stored stand.
C16_Witness ==
    \E t \in Threads :
        /\ thr[t].kind = "stats" /\ thr[t].chat = 1 /\ thr[t].pc = "stored"
        /\ Row(1, 1) \notin stats[1]
        /\ Row(1, 2) \in stats[1] /\ Row(1, 2).text = <<>>
        /\ stats[2] = AllRows(2)

\* ------------------------------------------------------------------- C17
\* C17: whenever a chart is asked for, the daily counts that are read are
\* those of the rows of the latest replace of that chat that succeeded (of
\* the rows the chat started with, before the first): the whole snapshot
\* from before a refresh that is under way, or the whole one after it.
C17_ReadSeesWholeSnapshot ==
    [][ chart' # chart =>
           chart'.view.daily = DailyFrom(committed'[chart'.view.chat], 1)
      ]_vars

\* A chart was drawn from the rows stored before, while a refresh of the
\* chat had collected different rows and not stored them yet.
C17_Witness ==
    /\ chart.view.kind = "chart" /\ chart.during
    /\ \E t \in Threads :
          /\ thr[t].kind = "stats" /\ thr[t].chat = chart.view.chat
          /\ thr[t].pc = "fetched"
          /\ thr[t].rows # stats[thr[t].chat]
          /\ thr[t].rows # {}
    /\ chart.view.daily = DailyFrom(stats[chart.view.chat], 1)

\* ------------------------------------------------------------------- C18
Days(daily) == { daily[i][1] : i \in 1..Len(daily) }

\* C18: the daily counts of a chat hold one pair for each day that has a
\* stored row and no other, with the number of rows of the day, in ascending
\* order of the days; the chart window alone puts in the days between the
\* first and the last that have no rows, with a count of 0.
C18_DailyCounts ==
    /\ \A c \in Chats :
          LET daily == get_daily_message_counts(stats, c)
          IN  /\ Days(daily) = { r.day : r \in stats[c] }
              /\ \A i \in 1..Len(daily) :
                    /\ daily[i][2] = Cardinality({ r \in stats[c] :
                                                      r.day = daily[i][1] })
                    /\ \A j \in 1..Len(daily) :
                          i < j => daily[i][1] < daily[j][1]
    /\ chart.view.kind = "chart" =>
          LET daily == chart.view.daily
              bars == chart.view.bars
          IN  /\ Len(bars) = daily[Len(daily)][1] - daily[1][1] + 1
              /\ \A k \in 1..Len(bars) :
                    /\ bars[k][1] = daily[1][1] + k - 1
                    /\ bars[k] \in { daily[i] : i \in 1..Len(daily) }
                          \/ (bars[k][1] \notin Days(daily) /\ bars[k][2] = 0)

\* Chat 2 has two rows on day 1: one pair.  Chat 1 has a row on day 1, none
\* on day 2, one on day 3: two pairs, and three bars in its chart.
C18_Witness ==
    /\ get_daily_message_counts(stats, 2) = << <<1, 2>> >>
    /\ get_daily_message_counts(stats, 1) = << <<1, 1>>, <<3, 1>> >>
    /\ chart.view.kind = "chart" /\ chart.view.chat = 1
    /\ chart.view.daily = << <<1, 1>>, <<3, 1>> >>
    /\ chart.view.bars = << <<1, 1>>, <<2, 0>>, <<3, 1>> >>

AtWork(t) == thr[t].pc \in {"opened", "streaming", "fetching", "fetched", "stored"}

\* C20: no two threads are at work on the same kind of artifact of the same
\* chat at the same time.
C20_NoOverlap ==
    \A t \in Threads, u \in Threads :
        (t # u /\ thr[t].kind = thr[u].kind /\ thr[t].chat = thr[u].chat)
            => ~(AtWork(t) /\ AtWork(u))

\* ------------------------------------------------------------------- C21
\* An export of another chat than thread t's is inside its message loop.
OtherExportStreaming(t) ==
    /\ loop_owner # 0 /\ loop_owner # t
    /\ thr[loop_owner].kind = "export"
    /\ thr[loop_owner].pc = "streaming"
    /\ thr[loop_owner].chat # thr[t].chat

\* C21: while an export of one chat is inside its message loop, an export of
\* another chat goes on as well (the login being valid, none of its steps
\* ends it), and no step of a thread changes the stored rows, the checkpoint
\* or the export directories of a chat other than its own.
C21_ParallelChatsIndependent ==
    [][ \A t \in Threads :
          /\ (/\ authorized /\ thr[t].kind = "export"
              /\ thr[t].pc \in {"start", "connected", "opened"}
              /\ OtherExportStreaming(t)
              /\ thr'[t] # thr[t])
                => thr'[t].pc # "ended"
          /\ (thr[t].pc \notin {"idle", "ended"} /\ thr'[t] # thr[t]) =>
                \A c \in Chats \ {thr[t].chat} :
                    /\ stats'[c] = stats[c]
                    /\ (c \in ckpt') = (c \in ckpt)
                    /\ { p \in exp_dirs' : p[1] = c } = { p \in exp_dirs : p[1] = c }
      ]_vars

\* ------------------------------------------------------------------- C25
\* The positions of a file at which a title header stands.
Titles(content) == { p \in 1..Len(content) : content[p] = TitlePart }

\* C25: as long as no checkpoint write has failed and no run has ended in an
\* error, every export file that holds anything starts with the title header
\* and holds no second one, whatever runs were killed and resumed before.
C25_TitleOnceAndFirst ==
    OnlyKills =>
        \A i \in 1..Len(disk) : View(i) # <<>> => Titles(View(i)) = {1}

\* ------------------------------------------------------------------- C26
\* C26: a step of the message loop that rolls over to a new file leaves a
\* checkpoint on disk that names the new file, as long as no checkpoint
\* write has failed.
C26_CheckpointAtRollover ==
    [][ (/\ pc = "streaming" /\ pc' = "streaming"
         /\ file_index' = file_index + 1
         /\ "unsaved" \notin mishaps')
            => (index' # NoIndex /\ index'.last_file_index = file_index')
      ]_vars

\* ------------------------------------------------------------------- C27
\* C27: every write of the checkpoint, in whatever run, stores a
\* last_message_id (null counting as 0) and a last_file_index that are not
\* below those of the checkpoint it replaces, and the checkpoint is never
\* removed.
C27_CheckpointMonotone ==
    [][ index' # index =>
           /\ index' # NoIndex
           /\ OrZero(index'.last_message_id) >= StoredWatermark
           /\ index'.last_file_index >=
                 (IF index = NoIndex THEN 1 ELSE index.last_file_index)
      ]_vars

\* A run was killed after its checkpoint was written; the next run resumed
\* from that checkpoint, rolled over and wrote a checkpoint with a higher
\* last_message_id and a higher last_file_index.
C27_Witness ==
    /\ pc = "done" /\ runs = 2 /\ mishaps = {"killed"}
    /\ min_id > 0 /\ index_written
    /\ index.updated_at[1] = 2
    /\ index.last_message_id[1] > min_id
    /\ index.last_file_index >= 2
    /\ messages_processed = 1

\* ------------------------------------------------------------------- C22
\* Pacing is switched on.
Paced == delay_messages_chunk > 0 /\ delay_seconds > 0

\* C22: with pacing switched on, an export pauses in the turn of the loop
\* that takes the K-th message from the source since the latest pause (K =
\* delay_messages_chunk), so that never more than K messages are taken
\* between two pauses; and at a pause the last thing written is the
\* separator that ends a record.
C22_PauseEveryChunk ==
    /\ [][ (pc = "streaming" /\ cursor' # cursor /\ pc' # "dead" /\ Paced) =>
              /\ (taken + 1 = delay_messages_chunk) => naps' = naps + 1
              /\ naps' # naps =>
                    /\ naps' = naps + 1
                    /\ buf' # <<>> /\ buf'[Len(buf')].k = "sep"
         ]_vars
    /\ []((pc = "streaming" /\ Paced) => taken < delay_messages_chunk)

\* ------------------------------------------------------------------- C23
\* C23: with pacing switched on, a stats refresh pauses in the turn of its
\* loop that takes the K-th message from the source since the latest pause,
\* so that never more than K messages are collected between two pauses.
C23_RefreshPaced ==
    /\ [][ (pc = "collecting" /\ cursor' # cursor /\ Paced) =>
              ((taken + 1 = delay_messages_chunk) => naps' = naps + 1)
         ]_vars
    /\ []((pc = "collecting" /\ Paced) => taken < delay_messages_chunk)

\* ------------------------------------------------------------------- C24
\* The phase of a run: 0 idle, 1 connecting (connect(), and for an export the
\* checkpoint read and the file opened), 2 streaming, 3 finalizing (the rows
\* stored and reported; an export finalizes in the step that leaves its
\* loop), 4 terminal.
Rank(p) ==
    CASE p = "idle" -> 0
      [] p \in {"start", "connected", "opened"} -> 1
      [] p \in {"streaming", "fetching"} -> 2
      [] p \in {"fetched", "stored"} -> 3
      [] p = "ended" -> 4

DoneNotes == {"export_done", "loaded"}

TwoFactorLogin ==
    <<<<"phone", "good">>, <<"code", "good">>, <<"password", "good">>>>

\* The latest n entries of the user.
Latest(n) ==
    IF Len(entered) < n THEN <<>>
    ELSE SubSeq(entered, Len(entered) - n + 1, Len(entered))

\* C28: on an account with a 2FA password, a user who has entered a valid
\* phone number, then a valid code, then the valid password is connected; the
\* code dialog does not come back.
C28_TwoFactorLoginCompletes ==
    (two_factor /\ Latest(3) = TwoFactorLogin) => prompt = "connected"


\* ------------------------------------------------------------------- C29
\* C29: a catalogue refresh whose fetch of the dialogs failed leaves the rows
\* of table chats as they were.
C29_FailedFetchKeepsChats ==
    [][ (refreshes' = refreshes + 1 /\ last_refresh' = "fetch_failed")
           => chats_table' = chats_table ]_vars

\* ------------------------------------------------------------------- C30
\* The categories the table shows for chat c, {} for a chat it does not show.
ShownCategories(tbl, assigned, c) ==
    UNION { r.categories :
            r \in { x \in get_chats_for_display(tbl, assigned) : x.tg_id = c } }

\* C30: a catalogue refresh that saves leaves table chats with the rows of
\* the list it was given and leaves every chat-category assignment as it was,
\* so a chat in the table before and after is shown with the categories it
\* had before.
C30_RefreshKeepsCategories ==
    [][ (refreshes' = refreshes + 1 /\ last_refresh' \in {"saved", "fetch_failed"})
           => /\ chats_table' = get_chats_and_channels(last_refresh' = "saved")
              /\ chat_categories' = chat_categories
              /\ \A r \in chats_table : \A q \in chats_table' :
                    r.tg_id = q.tg_id =>
                       ShownCategories(chats_table', chat_categories', r.tg_id)
                          = ShownCategories(chats_table, chat_categories, r.tg_id)
      ]_vars

\* After two saving refreshes a chat is shown with a category it got between
\* them, and an assignment of a chat that has left the table is still stored.
C30_Witness ==
    /\ last_refresh = "saved"
    /\ refreshes >= 2
    /\ \E r \in chats_table :
          ShownCategories(chats_table, chat_categories, r.tg_id) # {}
    /\ \E a \in chat_categories : \A r \in chats_table : r.tg_id # a[1]

=============================================================================
